---------------------------- MODULE Spec2Model ----------------------------
(***************************************************************************)
(* Natural-language analytics query engine of propel-backend:              *)
(*   analytics/ask_views.py     AskAPIView (POST /query), planner, resolver *)
(*   analytics/gemini_client.py ask_gemini and the module-level last error  *)
(* Texts are TLA+ strings; substring tests, lower() and strip() are        *)
(* computed character by character.                                        *)
(***************************************************************************)
EXTENDS Integers, Sequences, FiniteSets, TLC

VARIABLES
    last_gemini_error,  \* gemini_client._last_gemini_error (module global)
    req,                \* per worker thread: the request it is serving
    catalog,            \* FieldCatalog rows: key of each row -> is_enabled
    ptext,              \* planner harness: prompt_lower
    pplan,              \* planner harness: plan before the resolver
    pout,               \* planner harness: plan after the resolver
    pstage,             \* planner harness: position
    sync                \* catalog harness: the runs of seed_field_catalog

vars == <<last_gemini_error, req, catalog, ptext, pplan, pout, pstage, sync>>

reqVars == <<last_gemini_error, req, catalog>>
plannerVars == <<ptext, pplan, pout, pstage>>

\* Python's None, for string-valued fields.
None == "None"

(***************************************************************************)
(* Bounds.                                                                 *)
(***************************************************************************)
\* Longest prompt of the planner harness, in fragments of Fragments.
MaxWords == 3

(***************************************************************************)
(* Text: str.lower(), str.strip(), `in`, startswith.                       *)
(***************************************************************************)
UpperChars == "ABCDEFGHIJKLMNOPQRSTUVWXYZ"
LowerChars == "abcdefghijklmnopqrstuvwxyz"

\* One character of str.lower().
LowerChar(c) ==
    IF \E i \in 1..Len(UpperChars) : SubSeq(UpperChars, i, i) = c
    THEN LET i == CHOOSE j \in 1..Len(UpperChars) : SubSeq(UpperChars, j, j) = c
         IN  SubSeq(LowerChars, i, i)
    ELSE c

RECURSIVE Lower(_)
\* str.lower()
Lower(s) ==
    IF Len(s) = 0 THEN ""
    ELSE LowerChar(SubSeq(s, 1, 1)) \o Lower(SubSeq(s, 2, Len(s)))

RECURSIVE LStrip(_)
LStrip(s) ==
    IF Len(s) > 0 /\ SubSeq(s, 1, 1) = " " THEN LStrip(SubSeq(s, 2, Len(s))) ELSE s

RECURSIVE RStrip(_)
RStrip(s) ==
    IF Len(s) > 0 /\ SubSeq(s, Len(s), Len(s)) = " "
    THEN RStrip(SubSeq(s, 1, Len(s) - 1)) ELSE s

\* str.strip()
Strip(s) == RStrip(LStrip(s))

\* Python's `sub in s`.
Contains(sub, s) ==
    \E i \in 1..(Len(s) - Len(sub) + 1) : SubSeq(s, i, i + Len(sub) - 1) = sub

\* s.startswith(pre)
StartsWith(s, pre) == Len(pre) <= Len(s) /\ SubSeq(s, 1, Len(pre)) = pre

\* any(word in s for word in words)
AnyIn(words, s) == \E i \in 1..Len(words) : Contains(words[i], s)

(***************************************************************************)
(* Plan: the dict built by the planner or parsed from the model's text.    *)
(***************************************************************************)
\* "filters" is a dict, modelled as the set of its items; the planner's plans
\* all carry "filters": {}.
MkPlan(ds, ms, dims, ct, lim) ==
    [dataset |-> ds, metrics |-> ms, dimensions |-> dims, filters |-> {},
     chart_type |-> ct, limit |-> lim]

\* One item of plan["filters"].
Filter(key, value) == [key |-> key, value |-> value]

\* The plan with the given "filters".
WithFilters(plan, filters) == [plan EXCEPT !.filters = filters]

\* The plan value of a response that carries "plan": None.
NoPlan == MkPlan(None, <<>>, <<>>, None, 0)

(***************************************************************************)
(* Heuristic Planner: AskAPIView._create_fallback_plan.                    *)
(***************************************************************************)
\* Keyword lists of the category chain, in the order the code tests them.
EmployeeWords  == <<"employee", "staff", "team", "people", "worker">>
CustomerWords  == <<"customer", "client", "buyer">>
ProjectWords   == <<"project", "development", "site">>
BookingWords   == <<"booking", "booked", "reservation">>
UnitWords      == <<"unit", "flat", "apartment", "inventory">>
MarketingWords == <<"marketing", "campaign", "ads", "advertising">>
RevenueWords   == <<"revenue", "sales", "income", "money">>

\* A variant that tests the table cues before the chart cues.
DetectChartType_TableFirst(prompt_lower) ==
    IF \/ Contains("table", prompt_lower)
       \/ Contains("list", prompt_lower)
       \/ Contains("show", prompt_lower)
        THEN "table"
    ELSE IF Contains("pie", prompt_lower) THEN "pie"
    ELSE IF Contains("bar", prompt_lower) THEN "bar"
    ELSE IF Contains("line", prompt_lower) \/ Contains("trend", prompt_lower)
        THEN "line"
    ELSE "answer"

\* Lines 197-205: the chart type the prompt asks for.
DetectChartType(prompt_lower) ==
    IF Contains("pie", prompt_lower) \/ Contains("pie chart", prompt_lower)
        THEN "pie"
    ELSE IF Contains("bar", prompt_lower) \/ Contains("bar chart", prompt_lower)
        THEN "bar"
    ELSE IF \/ Contains("line", prompt_lower)
            \/ Contains("line chart", prompt_lower)
            \/ Contains("trend", prompt_lower)
        THEN "line"
    ELSE IF \/ Contains("table", prompt_lower)
            \/ Contains("list", prompt_lower)
            \/ Contains("show", prompt_lower)
        THEN "table"
    ELSE "answer"

\* `chart_type if chart_type != "answer" else default`
ChartOr(chart_type, default) == IF chart_type # "answer" THEN chart_type ELSE default

\* A variant that tests the booking keywords before the project keywords.
CreateFallbackPlan_BookingFirst(prompt_lower) ==
    LET chart_type == DetectChartType(prompt_lower) IN
    IF AnyIn(BookingWords, prompt_lower) THEN
        MkPlan("booking", <<"booking_value">>, <<>>, "answer", 1)
    ELSE IF AnyIn(ProjectWords, prompt_lower) THEN
        MkPlan("project", <<>>, <<>>, "answer", 1)
    ELSE IF AnyIn(EmployeeWords, prompt_lower) THEN
        MkPlan("employee", <<>>, <<>>, "answer", 1)
    ELSE MkPlan("org_kpi", <<"revenue_booked">>, <<>>, "answer", 1)

\* A variant whose result depends on the module-level last error.
CreateFallbackPlan_ReadsLastError(prompt_lower) ==
    IF last_gemini_error = None
    THEN MkPlan("org_kpi", <<"revenue_booked">>, <<>>, "answer", 1)
    ELSE MkPlan("employee", <<>>, <<>>, "answer", 1)

\* A variant in which the secondary keywords alone decide the shape: the
\* project branch has no list/show case and every degenerate plan is empty.
CreateFallbackPlan_SecondaryOnly(prompt_lower) ==
    LET chart_type == DetectChartType(prompt_lower) IN
    IF AnyIn(EmployeeWords, prompt_lower) THEN
        IF AnyIn(<<"by role", "by department", "breakdown">>, prompt_lower)
        THEN MkPlan("employee", <<>>, <<"role">>, ChartOr(chart_type, "bar"), 50)
        ELSE MkPlan("employee", <<>>, <<>>, "answer", 1)
    ELSE IF AnyIn(CustomerWords, prompt_lower) THEN
        IF AnyIn(<<"by status", "breakdown", "by stage">>, prompt_lower)
        THEN MkPlan("customer", <<>>, <<"status">>, ChartOr(chart_type, "pie"), 50)
        ELSE MkPlan("customer", <<>>, <<>>, "answer", 1)
    ELSE IF AnyIn(ProjectWords, prompt_lower) THEN
        IF AnyIn(<<"by status", "breakdown">>, prompt_lower)
        THEN MkPlan("project", <<>>, <<"status">>, ChartOr(chart_type, "pie"), 50)
        ELSE MkPlan("project", <<>>, <<>>, "answer", 1)
    ELSE IF AnyIn(BookingWords, prompt_lower) THEN
        IF AnyIn(<<"by project", "breakdown">>, prompt_lower)
        THEN MkPlan("booking", <<"booking_value">>, <<"project">>,
                    ChartOr(chart_type, "bar"), 50)
        ELSE MkPlan("booking", <<>>, <<>>, "answer", 1)
    ELSE IF AnyIn(UnitWords, prompt_lower) THEN
        IF AnyIn(<<"by status", "breakdown">>, prompt_lower)
        THEN MkPlan("unit", <<>>, <<"status">>, ChartOr(chart_type, "pie"), 50)
        ELSE MkPlan("unit", <<>>, <<>>, "answer", 1)
    ELSE IF AnyIn(MarketingWords, prompt_lower) THEN
        IF AnyIn(<<"by channel", "breakdown">>, prompt_lower)
        THEN MkPlan("marketing_campaign", <<"spend">>, <<"channel">>,
                    ChartOr(chart_type, "pie"), 50)
        ELSE MkPlan("marketing_campaign", <<>>, <<>>, "answer", 1)
    ELSE IF AnyIn(RevenueWords, prompt_lower) THEN
        MkPlan("org_kpi", <<>>, <<>>, "answer", 1)
    ELSE MkPlan("org_kpi", <<"revenue_booked">>, <<>>, "answer", 1)

\* Lines 194-245.
CreateFallbackPlan(prompt_lower) ==
    LET chart_type == DetectChartType(prompt_lower) IN
    IF AnyIn(EmployeeWords, prompt_lower) THEN
        IF AnyIn(<<"by role", "by department", "breakdown">>, prompt_lower)
        THEN MkPlan("employee", <<>>, <<"role">>, ChartOr(chart_type, "bar"), 50)
        ELSE MkPlan("employee", <<>>, <<>>, "answer", 1)
    ELSE IF AnyIn(CustomerWords, prompt_lower) THEN
        IF AnyIn(<<"by status", "breakdown", "by stage">>, prompt_lower)
        THEN MkPlan("customer", <<>>, <<"status">>, ChartOr(chart_type, "pie"), 50)
        ELSE MkPlan("customer", <<>>, <<>>, "answer", 1)
    ELSE IF AnyIn(ProjectWords, prompt_lower) THEN
        IF AnyIn(<<"by status", "breakdown">>, prompt_lower)
        THEN MkPlan("project", <<>>, <<"status">>, ChartOr(chart_type, "pie"), 50)
        ELSE IF AnyIn(<<"list", "show", "all", "graph", "chart">>, prompt_lower)
        THEN MkPlan("project", <<>>, <<"name">>, ChartOr(chart_type, "bar"), 50)
        ELSE MkPlan("project", <<>>, <<>>, "answer", 1)
    ELSE IF AnyIn(BookingWords, prompt_lower) THEN
        IF AnyIn(<<"by project", "breakdown">>, prompt_lower)
        THEN MkPlan("booking", <<"booking_value">>, <<"project">>,
                    ChartOr(chart_type, "bar"), 50)
        ELSE MkPlan("booking", <<"booking_value">>, <<>>, "answer", 1)
    ELSE IF AnyIn(UnitWords, prompt_lower) THEN
        IF AnyIn(<<"by status", "breakdown">>, prompt_lower)
        THEN MkPlan("unit", <<>>, <<"status">>, ChartOr(chart_type, "pie"), 50)
        ELSE MkPlan("unit", <<>>, <<>>, "answer", 1)
    ELSE IF AnyIn(MarketingWords, prompt_lower) THEN
        IF AnyIn(<<"by channel", "breakdown">>, prompt_lower)
        THEN MkPlan("marketing_campaign", <<"spend">>, <<"channel">>,
                    ChartOr(chart_type, "pie"), 50)
        ELSE MkPlan("marketing_campaign", <<"spend", "leads", "bookings">>, <<>>,
                    "answer", 1)
    ELSE IF AnyIn(RevenueWords, prompt_lower) THEN
        MkPlan("org_kpi", <<"revenue_booked", "revenue_collected">>, <<>>, "answer", 1)
    ELSE MkPlan("org_kpi", <<"revenue_booked">>, <<>>, "answer", 1)

(***************************************************************************)
(* Chart-Type Resolver: AskAPIView._apply_chart_type_from_prompt.  The     *)
(* code mutates plan["chart_type"] in place; the operator returns the plan *)
(* as it is after the call.                                                *)
(***************************************************************************)
\* The three explicit cue tests, lines 251, 253 and 255.
PieCue(prompt_lower) ==
    \/ Contains("pie chart", prompt_lower)
    \/ Contains(" pie ", prompt_lower)
    \/ StartsWith(Strip(prompt_lower), "pie ")

BarCue(prompt_lower) ==
    \/ Contains("bar graph", prompt_lower)
    \/ Contains("bar chart", prompt_lower)
    \/ (Contains("bar", prompt_lower) /\ Contains("chart", prompt_lower))

LineCue(prompt_lower) ==
    \/ Contains("line chart", prompt_lower)
    \/ Contains("line graph", prompt_lower)
    \/ (Contains("line", prompt_lower) /\ Contains("chart", prompt_lower))

\* A variant that tests the bar cue before the pie cue.
ApplyChartTypeFromPrompt_BarFirst(prompt_lower, plan) ==
    IF BarCue(prompt_lower) THEN [plan EXCEPT !.chart_type = "bar"]
    ELSE IF PieCue(prompt_lower) THEN [plan EXCEPT !.chart_type = "pie"]
    ELSE IF LineCue(prompt_lower) THEN [plan EXCEPT !.chart_type = "line"]
    ELSE IF Len(plan.dimensions) > 0 /\ plan.chart_type \in {"table", "answer"}
    THEN [plan EXCEPT !.chart_type = "pie"]
    ELSE plan

\* A variant whose default upgrade ignores the plan's dimensions.
ApplyChartTypeFromPrompt_NoDimensionTest(prompt_lower, plan) ==
    IF PieCue(prompt_lower) THEN [plan EXCEPT !.chart_type = "pie"]
    ELSE IF BarCue(prompt_lower) THEN [plan EXCEPT !.chart_type = "bar"]
    ELSE IF LineCue(prompt_lower) THEN [plan EXCEPT !.chart_type = "line"]
    ELSE IF plan.chart_type \in {"table", "answer"}
    THEN [plan EXCEPT !.chart_type = "pie"]
    ELSE plan

\* A variant that builds a new plan and leaves the filters behind.
ApplyChartTypeFromPrompt_RebuildsPlan(prompt_lower, plan) ==
    LET chart_type ==
            IF PieCue(prompt_lower) THEN "pie"
            ELSE IF BarCue(prompt_lower) THEN "bar"
            ELSE IF LineCue(prompt_lower) THEN "line"
            ELSE IF Len(plan.dimensions) > 0 /\ plan.chart_type \in {"table", "answer"}
            THEN "pie"
            ELSE plan.chart_type
    IN  MkPlan(plan.dataset, plan.metrics, plan.dimensions, chart_type, plan.limit)

\* Lines 247-259.
ApplyChartTypeFromPrompt(prompt_lower, plan) ==
    IF PieCue(prompt_lower) THEN [plan EXCEPT !.chart_type = "pie"]
    ELSE IF BarCue(prompt_lower) THEN [plan EXCEPT !.chart_type = "bar"]
    ELSE IF LineCue(prompt_lower) THEN [plan EXCEPT !.chart_type = "line"]
    ELSE IF Len(plan.dimensions) > 0 /\ plan.chart_type \in {"table", "answer"}
    THEN [plan EXCEPT !.chart_type = "pie"]
    ELSE plan

(***************************************************************************)
(* Translator: gemini_client.ask_gemini.  An Outcome is what the           *)
(* environment does to one call: the import, the credential, the transport *)
(* and the response object the external model returns.                     *)
(***************************************************************************)
\* response.text: raises, or is a string.  A string is described by what
\* extract_json can find in it.
MkText(kind, plan) == [kind |-> kind, plan |-> plan]

\* ask_gemini's return value None.
NoText == MkText("None", NoPlan)

\* Plans the external model may write into its answer.
ModelPlans ==
    { MkPlan("customer", <<>>, <<"status">>, "table", 50),
      MkPlan("org_kpi", <<"revenue_booked">>, <<>>, "bar", 1),
      \* a dataset that is not registered
      MkPlan("payroll", <<"salary">>, <<>>, "answer", 1),
      \* a metric no catalog entry has, a dimension of another dataset, a
      \* tenant key and an unknown key among the filters, limit 0
      WithFilters(MkPlan("customer", <<"shoe_size">>, <<"status", "role">>, "table", 0),
                  {Filter("organization", "orgB"), Filter("shoe_size", "9")}),
      \* a negative limit
      MkPlan("employee", <<>>, <<"role">>, "pie", -3) }
        \cup \* more groups than the limit, and a limit above 50
             { WithFilters(MkPlan("unit", <<>>, <<"floor">>, "bar", l),
                           {Filter("status", "available")}) : l \in {2, 80} }

ResponseTexts ==
    { MkText(k, NoPlan) : k \in {"unreadable", "empty", "blank", "prose"} }
        \cup { MkText("json", m) : m \in ModelPlans }

FinishReasons == {"STOP", "MAX_TOKENS"}

Outcomes ==
    { [kind |-> k, finish |-> "STOP", text |-> NoText] :
        k \in {"no_dependency", "no_api_key", "transport_error",
               "no_response", "blocked", "no_candidates"} }
        \cup { [kind |-> "candidates", finish |-> f, text |-> t] :
                f \in FinishReasons, t \in ResponseTexts }

\* No call of ask_gemini yet.
NoOutcome == [kind |-> "None", finish |-> "STOP", text |-> NoText]

\* The messages ask_gemini and get_gemini_client store in _last_gemini_error.
ErrNotInstalled == "google-generativeai is not installed. Run: pip install google-generativeai"
ErrNoApiKey     == "GEMINI_API_KEY not set. Add it to .env in the backend folder (propel-insights-backend/.env)."
ErrTransport    == "ConnectionError: transport"
ErrNoResponse   == "Gemini returned no response object."
ErrBlocked      == "Gemini blocked the prompt: SAFETY"
ErrNoCandidates == "Gemini returned no candidates (empty or blocked)."
ErrStopped      == "Gemini stopped: MAX_TOKENS"
ErrNotReadable  == "Gemini response not readable: ValueError"
ErrEmptyText    == "Gemini returned empty text."

\* `not (text and text.strip())`
IsEmptyText(text) == text.kind \in {"empty", "blank"}

\* What one call of ask_gemini does: the value it returns, the message it
\* leaves in _last_gemini_error (None: it stores none), or an exception that
\* leaves it.
AskReturn(ret, err) == [ret |-> ret, err |-> err, raised |-> FALSE]
AskRaise == [ret |-> NoText, err |-> None, raised |-> TRUE]

\* A variant without the `except Exception` handler of lines 103-106.
AskGeminiResult_TransportRaises(o) ==
    CASE o.kind = "no_dependency"   -> AskReturn(NoText, ErrNotInstalled)
      [] o.kind = "no_api_key"      -> AskReturn(NoText, ErrNoApiKey)
      [] o.kind = "transport_error" -> AskRaise
      [] o.kind = "no_response"     -> AskReturn(NoText, ErrNoResponse)
      [] o.kind = "blocked"         -> AskReturn(NoText, ErrBlocked)
      [] o.kind = "no_candidates"   -> AskReturn(NoText, ErrNoCandidates)
      [] OTHER ->
            LET stopped == IF o.finish \notin {"FINISH_REASON_UNSPECIFIED", "STOP", "1"}
                           THEN ErrStopped ELSE None
            IN  IF o.text.kind = "unreadable"
                    THEN AskReturn(NoText, ErrNotReadable)
                ELSE IF IsEmptyText(o.text)
                    THEN AskReturn(NoText, ErrEmptyText)
                ELSE AskReturn(o.text, stopped)

\* A variant whose empty-text return stores no message (no line 88).
AskGeminiResult_EmptyTextNoCause(o) ==
    CASE o.kind = "no_dependency"   -> AskReturn(NoText, ErrNotInstalled)
      [] o.kind = "no_api_key"      -> AskReturn(NoText, ErrNoApiKey)
      [] o.kind = "transport_error" -> AskReturn(NoText, ErrTransport)
      [] o.kind = "no_response"     -> AskReturn(NoText, ErrNoResponse)
      [] o.kind = "blocked"         -> AskReturn(NoText, ErrBlocked)
      [] o.kind = "no_candidates"   -> AskReturn(NoText, ErrNoCandidates)
      [] OTHER ->
            LET stopped == IF o.finish \notin {"FINISH_REASON_UNSPECIFIED", "STOP", "1"}
                           THEN ErrStopped ELSE None
            IN  IF o.text.kind = "unreadable"
                    THEN AskReturn(NoText, ErrNotReadable)
                ELSE IF IsEmptyText(o.text)
                    THEN AskReturn(NoText, stopped)
                ELSE AskReturn(o.text, stopped)

\* Lines 55-106 of ask_gemini, after the reset of line 54.
AskGeminiResult(o) ==
    CASE o.kind = "no_dependency"   -> AskReturn(NoText, ErrNotInstalled)
      [] o.kind = "no_api_key"      -> AskReturn(NoText, ErrNoApiKey)
      [] o.kind = "transport_error" -> AskReturn(NoText, ErrTransport)
      [] o.kind = "no_response"     -> AskReturn(NoText, ErrNoResponse)
      [] o.kind = "blocked"         -> AskReturn(NoText, ErrBlocked)
      [] o.kind = "no_candidates"   -> AskReturn(NoText, ErrNoCandidates)
      [] OTHER ->
            LET stopped == IF o.finish \notin {"FINISH_REASON_UNSPECIFIED", "STOP", "1"}
                           THEN ErrStopped ELSE None
            IN  IF o.text.kind = "unreadable"
                    THEN AskReturn(NoText, ErrNotReadable)
                ELSE IF IsEmptyText(o.text)
                    THEN AskReturn(NoText, ErrEmptyText)
                ELSE AskReturn(o.text, stopped)

\* analytics_executor.extract_json: the first JSON object of the text, or None.
ExtractJson(text) == IF text.kind = "json" THEN text.plan ELSE NoPlan

(***************************************************************************)
(* Field Catalog contents and the tenants' records.                        *)
(***************************************************************************)
\* Tenants get_org can resolve a request to; it returns None for no tenant.
Orgs == {"orgA", "orgB"}

\* The fields model._meta.get_fields() yields for the models of
\* DATASET_MODELS, each with its Django field class, in the order of
\* FieldCatalog's queries, order_by("dataset", "label").  "related.CharField"
\* is a CharField of the model a ForeignKey points to (channel__label).
ModelFields ==
    << <<"booking", "booking_value", "DecimalField">>,
       <<"booking", "project", "ForeignKey">>,
       <<"customer", "status", "CharField">>,
       <<"employee", "role", "CharField">>,
       <<"marketing_campaign", "bookings", "IntegerField">>,
       <<"marketing_campaign", "channel", "ForeignKey">>,
       <<"marketing_campaign", "channel__label", "related.CharField">>,
       <<"marketing_campaign", "leads", "IntegerField">>,
       <<"marketing_campaign", "spend", "DecimalField">>,
       <<"marketing_campaign", "start_date", "DateField">>,
       <<"org_kpi", "revenue_booked", "DecimalField">>,
       <<"org_kpi", "revenue_collected", "DecimalField">>,
       <<"project", "name", "CharField">>,
       <<"project", "status", "CharField">>,
       <<"unit", "floor", "IntegerField">>,
       <<"unit", "status", "CharField">> >>

\* get_field_type, lines 26-39.
GetFieldType(class) ==
    IF class \in {"DecimalField", "FloatField"} THEN "decimal"
    ELSE IF class \in {"IntegerField", "BigIntegerField", "PositiveIntegerField"}
        THEN "integer"
    ELSE IF class \in {"DateField", "DateTimeField"} THEN "date"
    ELSE IF class = "BooleanField" THEN "boolean"
    ELSE IF class = "ForeignKey" THEN "foreign_key"
    ELSE "string"

\* The data_type handle puts into the defaults of update_or_create: the
\* literal "foreign_key" for a ForeignKey (line 84), "string" for a field of
\* the related model (line 110), get_field_type otherwise (line 126).
DataTypeWritten(class) ==
    IF class = "ForeignKey" THEN "foreign_key"
    ELSE IF class = "related.CharField" THEN "string"
    ELSE GetFieldType(class)

\* The rows seed_field_catalog writes: dataset, field name, data_type, in the
\* order of ModelFields.
FieldRows ==
    [i \in 1..Len(ModelFields) |->
        <<ModelFields[i][1], ModelFields[i][2], DataTypeWritten(ModelFields[i][3])>>]

FieldDefs == { FieldRows[i] : i \in 1..Len(FieldRows) }

\* key = f"{dataset_name}.{field.name}"
FieldKey(d) == d[1] \o "." \o d[2]

AllCatalogKeys == { FieldKey(d) : d \in FieldDefs }

\* A row no run of the command derives: its field is not in the models
\* (any more).
UnderivedRows == << <<"customer", "legacy_code", "string">> >>

\* The rows the table can hold.  The underived row comes last: the listings
\* are sets and the order decides only the cut at fifty fields.
StoredRows == FieldRows \o UnderivedRows

StoredDefs == { StoredRows[i] : i \in 1..Len(StoredRows) }

StoredKeys == { FieldKey(d) : d \in StoredDefs }

\* The row with this key exists and has is_enabled = True.
IsEnabled(k) == k \in DOMAIN catalog /\ catalog[k]

\* The keys whose is_enabled flag the model clears.
CatalogKeys == {"employee.role", "customer.status"}

\* Floors of tenant orgA's units: more distinct values than the largest limit.
UnitFloors == 51

\* The records of the tenants; no record belongs to two tenants.
MkRow(id, org, dataset, f) == [id |-> id, org |-> org, dataset |-> dataset, f |-> f]

Rows ==
    { MkRow(1, "orgA", "customer", [status |-> "booked"]),
      MkRow(2, "orgA", "customer", [status |-> "booked"]),
      MkRow(3, "orgA", "customer", [status |-> "walk_in"]),
      MkRow(4, "orgB", "customer", [status |-> "cancelled"]),
      MkRow(5, "orgB", "customer", [status |-> "booked"]),
      MkRow(11, "orgA", "employee", [role |-> "ceo"]),
      MkRow(12, "orgA", "employee", [role |-> "site_engineer"]),
      MkRow(13, "orgB", "employee", [role |-> "ceo"]),
      MkRow(21, "orgA", "org_kpi", [revenue_booked |-> 100, revenue_collected |-> 60]),
      MkRow(22, "orgB", "org_kpi", [revenue_booked |-> 70, revenue_collected |-> 20]),
      MkRow(31, "orgB", "unit", [status |-> "sold", floor |-> 1]) }
        \cup { MkRow(100 + i, "orgA", "unit", [status |-> "available", floor |-> i]) :
                i \in 1..UnitFloors }

\* The ascending order of the string values of the records.
StringOrder ==
    <<"available", "booked", "cancelled", "ceo", "site_engineer", "sold", "walk_in">>

(***************************************************************************)
(* Plan Executor: analytics_executor.run_plan, after section 4.6 of the    *)
(* specification.                                                          *)
(***************************************************************************)
RegisteredDatasets ==
    {"marketing_campaign", "location_demand", "org_kpi", "project_kpi",
     "customer", "booking", "project", "unit", "employee"}

\* The largest limit a plan may ask for.
MaxLimit == 50

\* A variant without the clamp.
ClampLimit_Unclamped(limit) == limit

\* Step 5: limit clamped to 1..50.
ClampLimit(limit) ==
    IF limit < 1 THEN 1 ELSE IF limit > MaxLimit THEN MaxLimit ELSE limit

\* A variant that accepts a field whatever its is_enabled flag.
ValidKey_IgnoresEnabled(dataset, key) ==
    \E d \in StoredDefs :
        d[1] = dataset /\ d[2] = key /\ FieldKey(d) \in DOMAIN catalog

\* Step 2: the key resolves to an enabled catalog entry of this dataset.
ValidKey(dataset, key) ==
    \E d \in StoredDefs : d[1] = dataset /\ d[2] = key /\ IsEnabled(FieldKey(d))

\* data_type of a valid key.
FieldType(dataset, key) ==
    (CHOOSE d \in StoredDefs : d[1] = dataset /\ d[2] = key)[3]

\* Step 2: unknown and disabled keys are dropped, the others kept in order.
KeepValid(dataset, keys) == SelectSeq(keys, LAMBDA k : ValidKey(dataset, k))

\* Step 5: metrics with a non-numeric data_type are skipped.
NumericMetrics(dataset, metrics) ==
    SelectSeq(KeepValid(dataset, metrics),
              LAMBDA k : FieldType(dataset, k) \in {"decimal", "integer"})

\* Step 3: the dataset's mandatory tenant-scoping predicate.
TenantScoped(dataset, org) == { r \in Rows : r.dataset = dataset /\ r.org = org }

\* Step 4: the remaining filters as exact-match predicates.
ApplyFilters(rows, dataset, filters) ==
    { r \in rows :
        \A f \in filters : ValidKey(dataset, f.key) => r.f[f.key] = f.value }

RECURSIVE SumOf(_, _)
\* Sum of a numeric field over a set of records; 0 for the empty set.
SumOf(rows, metric) ==
    IF rows = {} THEN 0
    ELSE LET r == CHOOSE x \in rows : TRUE
         IN  r.f[metric] + SumOf(rows \ {r}, metric)

\* Sum per metric, or Count if there is no metric.
Aggregate(rows, metrics) ==
    IF Len(metrics) = 0 THEN <<Cardinality(rows)>>
    ELSE [i \in 1..Len(metrics) |-> SumOf(rows, metrics[i])]

\* The group key of a record: its values of the dimensions, in order.
GroupKey(r, dims) == [i \in 1..Len(dims) |-> r.f[dims[i]]]

\* Position of a value in the ascending order of its type.
Rank(dataset, dim, v) ==
    IF FieldType(dataset, dim) = "integer" THEN v
    ELSE CHOOSE i \in 1..Len(StringOrder) : StringOrder[i] = v

\* Group key k1 sorts before k2 (ascending, dimension by dimension).
KeyBefore(dataset, dims, k1, k2) ==
    \E i \in 1..Len(dims) :
        /\ \A j \in 1..(i - 1) : k1[j] = k2[j]
        /\ Rank(dataset, dims[i], k1[i]) < Rank(dataset, dims[i], k2[i])

\* Step 5: first metric (or count) descending, ties by group key ascending.
GroupBefore(dataset, dims, g, h) ==
    \/ g.vals[1] > h.vals[1]
    \/ (g.vals[1] = h.vals[1] /\ KeyBefore(dataset, dims, g.key, h.key))

\* Step 5: the groups of the rows, each with its place in the order, cut to
\* the clamped limit.
GroupedPath(rows, dataset, dims, metrics, limit) ==
    LET keys == { GroupKey(r, dims) : r \in rows }
        groups == { [key |-> k,
                     vals |-> Aggregate({ r \in rows : GroupKey(r, dims) = k }, metrics)] :
                    k \in keys }
        place(g) == 1 + Cardinality({ h \in groups : GroupBefore(dataset, dims, h, g) })
    IN  { [key |-> g.key, vals |-> g.vals, place |-> place(g)] :
            g \in { x \in groups : place(x) <= ClampLimit(limit) } }

\* Step 6: a single Count, or one Sum per metric.
ScalarPath(rows, metrics) ==
    IF Len(metrics) = 0
    THEN { [key |-> <<"count">>, vals |-> <<Cardinality(rows)>>, place |-> 1] }
    ELSE { [key |-> <<metrics[i]>>, vals |-> <<SumOf(rows, metrics[i])>>, place |-> i] :
            i \in 1..Len(metrics) }

\* run_plan's result: an exception, or the keys of the result dict by the
\* plan's chart_type, the groups behind them and the ids of the records read.
MkResult(raised, answer, chart, table, groups, read) ==
    [raised |-> raised, answer |-> answer, chart |-> chart, table |-> table,
     groups |-> groups, read |-> read]

\* run_plan not called.
NoResult == MkResult(FALSE, None, None, None, {}, {})

\* `fault` is an unexpected aggregation fault.  An unknown dataset and a
\* fault end the run with an exception, before any record is read.
RunPlan(plan, org, fault) ==
    IF fault \/ plan.dataset \notin RegisteredDatasets
    THEN MkResult(TRUE, None, None, None, {}, {})
    ELSE LET dims == KeepValid(plan.dataset, plan.dimensions)
             metrics == NumericMetrics(plan.dataset, plan.metrics)
             scoped == TenantScoped(plan.dataset, org)
             rows == ApplyFilters(scoped, plan.dataset, plan.filters)
             groups == IF Len(dims) > 0
                       THEN GroupedPath(rows, plan.dataset, dims, metrics, plan.limit)
                       ELSE ScalarPath(rows, metrics)
             read == { r.id : r \in scoped }
         IN  IF plan.chart_type = "answer"
                 THEN MkResult(FALSE, "value", None, None, groups, read)
             ELSE IF plan.chart_type \in {"pie", "bar", "line"}
                 THEN MkResult(FALSE, None, plan.chart_type, None, groups, read)
             ELSE MkResult(FALSE, None, None, "rows", groups, read)

(***************************************************************************)
(* The schema listings: get_schema_for_gemini and SchemaAPIView.get.  A    *)
(* listing is the set of its entries, each under its dataset.              *)
(***************************************************************************)
\* `fields[:50]`
SchemaFieldLimit == 50

\* A variant of the query without the is_enabled filter.
EnabledFields_AllRows ==
    SelectSeq(StoredRows, LAMBDA d : FieldKey(d) \in DOMAIN catalog)

\* FieldCatalog.objects.filter(is_enabled=True).order_by("dataset", "label")
EnabledFields == SelectSeq(StoredRows, LAMBDA d : IsEnabled(FieldKey(d)))

\* datasets[field.dataset].append({"key": field.key, ...})
SchemaEntry(d) == [dataset |-> d[1], key |-> FieldKey(d)]

\* SchemaAPIView.get: every enabled field under its dataset.
SchemaDatasets == { SchemaEntry(EnabledFields[i]) : i \in 1..Len(EnabledFields) }

\* get_schema_for_gemini: the first fifty enabled fields of each dataset.
GetSchemaForGemini ==
    { SchemaEntry(EnabledFields[i]) :
        i \in { n \in 1..Len(EnabledFields) :
                  Cardinality({ m \in 1..n : EnabledFields[m][1] = EnabledFields[n][1] })
                      <= SchemaFieldLimit } }

(***************************************************************************)
(* POST /query: AskAPIView.post, one request per worker thread.            *)
(***************************************************************************)
Workers == {"w1", "w2"}

\* request.data["prompt"] of the requests sent.
RequestPrompts ==
    { "  ",
      "Hello",
      "what's my total revenue?",
      "Show employees by role ",
      "customers by status in a Pie Chart",
      "project bookings breakdown" }

Greetings == {"hi", "hello", "help", "what can you do?"}

HelpAnswer == "I can help you analyze your organization's data."
FallbackDefaultAnswer == "Unable to process query. Please try rephrasing."
ParseFailAnswer == "Could not parse query plan. Please try rephrasing."
ExecutedDefaultAnswer == "Query executed successfully."
ExecErrorAnswer == "Error executing query: fault"

\* The Response of post: HTTP status and the payload's keys.  `error` is the
\* "error" key of the 400/403 payloads; `unhandled` marks an exception that
\* left post, which the framework turns into a 500 without a payload.
MkResponse(status, error, plan, answer, chart, table, failed, gerr, unhandled) ==
    [status |-> status, error |-> error, plan |-> plan, answer |-> answer,
     chart |-> chart, table |-> table, gemini_failed |-> failed,
     gemini_error |-> gerr, unhandled |-> unhandled]

NoResponse == MkResponse(0, None, NoPlan, None, None, None, FALSE, None, FALSE)

\* run_plan's arguments, recorded when post calls it.
MkRun(plan, org, raised) ==
    [called |-> TRUE, plan |-> plan, org |-> org, raised |-> raised]
NoRun == [called |-> FALSE, plan |-> NoPlan, org |-> None, raised |-> FALSE]

\* A worker with no request.
IdleReq ==
    [pc |-> "idle", prompt |-> "", prompt_lower |-> "", org |-> None,
     view |-> None,           \* the view serving the request
     tenant |-> None,         \* what get_org returns for the request's user
     datasets |-> {},         \* the schema listing the view has built
     fault |-> FALSE,         \* run_plan met an unexpected fault
     outcome |-> NoOutcome,   \* what the environment did to ask_gemini
     gemini_response |-> NoText,
     cause |-> None,          \* what this request's ask_gemini call recorded
     heuristic |-> NoPlan,    \* what _create_fallback_plan returned
     extracted |-> NoPlan,    \* what extract_json returned
     executed |-> NoRun,
     result |-> NoResult,     \* what run_plan returned
     response |-> NoResponse]

\* result.get(key, default)
GetOr(value, default) == IF value = None THEN default ELSE value

\* A variant that resolves the tenant before it looks at the prompt.
Post_TenantFirst(w, data_prompt, tenant) ==
    /\ req[w].pc = "idle"
    /\ LET prompt == Strip(data_prompt)
           prompt_lower == Lower(prompt)
           r == [req[w] EXCEPT !.prompt = prompt, !.view = "AskAPIView",
                               !.tenant = tenant]
           asked == [r EXCEPT !.org = tenant, !.prompt_lower = prompt_lower]
       IN  req' = [req EXCEPT ![w] =
                IF tenant = None THEN
                    [r EXCEPT !.pc = "done",
                              !.response = MkResponse(403,
                                  "No organization mapped to user. Org admin access required.",
                                  NoPlan, None, None, None, FALSE, None, FALSE)]
                ELSE IF prompt = "" THEN
                    [r EXCEPT !.pc = "done",
                              !.response = MkResponse(400, "Prompt is required.",
                                  NoPlan, None, None, None, FALSE, None, FALSE)]
                ELSE IF prompt_lower \in Greetings THEN
                    [asked EXCEPT !.pc = "done",
                              !.response = MkResponse(200, None, NoPlan, HelpAnswer,
                                  None, None, FALSE, None, FALSE)]
                ELSE [asked EXCEPT !.pc = "ask", !.datasets = GetSchemaForGemini]]
    /\ UNCHANGED <<last_gemini_error, catalog, plannerVars, sync>>

\* Lines 261-287: validation, tenant, greetings, schema.
Post(w, data_prompt, tenant) ==
    /\ req[w].pc = "idle"
    /\ LET prompt == Strip(data_prompt)
           prompt_lower == Lower(prompt)
           r == [req[w] EXCEPT !.prompt = prompt, !.view = "AskAPIView",
                               !.tenant = tenant]
           asked == [r EXCEPT !.org = tenant, !.prompt_lower = prompt_lower]
       IN  req' = [req EXCEPT ![w] =
                IF prompt = "" THEN
                    [r EXCEPT !.pc = "done",
                              !.response = MkResponse(400, "Prompt is required.",
                                  NoPlan, None, None, None, FALSE, None, FALSE)]
                ELSE IF tenant = None THEN
                    [r EXCEPT !.pc = "done",
                              !.response = MkResponse(403,
                                  "No organization mapped to user. Org admin access required.",
                                  NoPlan, None, None, None, FALSE, None, FALSE)]
                ELSE IF prompt_lower \in Greetings THEN
                    [asked EXCEPT !.pc = "done",
                              !.response = MkResponse(200, None, NoPlan, HelpAnswer,
                                  None, None, FALSE, None, FALSE)]
                ELSE [asked EXCEPT !.pc = "ask", !.datasets = GetSchemaForGemini]]
    /\ UNCHANGED <<last_gemini_error, catalog, plannerVars, sync>>

\* ask_gemini, lines 53-54: the reset of the module-level error.
AskGeminiReset(w) ==
    /\ req[w].pc = "ask"
    /\ last_gemini_error' = None
    /\ req' = [req EXCEPT ![w].pc = "call"]
    /\ UNCHANGED <<catalog, plannerVars, sync>>

\* ask_gemini, lines 55-106: the call to the external model and its handling.
\* post has no handler around line 290: an exception leaving ask_gemini
\* leaves post.  The schema text has been sent and is not used again.
AskGeminiCall(w, o) ==
    /\ req[w].pc = "call"
    /\ LET res == AskGeminiResult(o) IN
        /\ last_gemini_error' = IF res.err = None THEN last_gemini_error ELSE res.err
        /\ req' = [req EXCEPT ![w] =
                IF res.raised
                THEN [@ EXCEPT !.pc = "done", !.outcome = o, !.datasets = {},
                               !.response = MkResponse(500, None, NoPlan, None, None,
                                                       None, FALSE, None, TRUE)]
                ELSE [@ EXCEPT !.pc = "returned", !.outcome = o, !.datasets = {},
                               !.gemini_response = res.ret, !.cause = res.err]]
    /\ UNCHANGED <<catalog, plannerVars, sync>>

\* The fallback branch without the Chart-Type Resolver.
FallbackResponse_NoResolver(prompt_lower, org, gemini_error, fault) ==
    LET fallback_plan == CreateFallbackPlan(prompt_lower)
        result == RunPlan(fallback_plan, org, fault)
    IN  [heuristic |-> CreateFallbackPlan(prompt_lower),
         executed |-> MkRun(fallback_plan, org, result.raised),
         result |-> result,
         response |->
            IF result.raised
            THEN MkResponse(500, None, NoPlan, None, None, None, FALSE, None, TRUE)
            ELSE MkResponse(200, None, fallback_plan,
                            GetOr(result.answer, FallbackDefaultAnswer),
                            result.chart, result.table, TRUE, gemini_error, FALSE)]

\* The fallback branch answering a failed translator with a failure status.
FallbackResponse_FailsRequest(prompt_lower, org, gemini_error, fault) ==
    [heuristic |-> NoPlan, executed |-> NoRun, result |-> NoResult,
     response |-> MkResponse(500, gemini_error, NoPlan, None, None, None,
                             TRUE, gemini_error, FALSE)]

\* Lines 292-305: the plan, the run and the payload of the fallback branch.
FallbackResponse(prompt_lower, org, gemini_error, fault) ==
    LET fallback_plan == ApplyChartTypeFromPrompt(prompt_lower,
                                                  CreateFallbackPlan(prompt_lower))
        result == RunPlan(fallback_plan, org, fault)
    IN  [heuristic |-> CreateFallbackPlan(prompt_lower),
         executed |-> MkRun(fallback_plan, org, result.raised),
         result |-> result,
         response |->
            IF result.raised
            THEN MkResponse(500, None, NoPlan, None, None, None, FALSE, None, TRUE)
            ELSE MkResponse(200, None, fallback_plan,
                            GetOr(result.answer, FallbackDefaultAnswer),
                            result.chart, result.table, TRUE, gemini_error, FALSE)]

\* Lines 291-305: `if not gemini_response`.
FallbackPath(w, fault) ==
    /\ req[w].pc = "returned"
    /\ req[w].gemini_response = NoText
    /\ LET gemini_error == last_gemini_error
           out == FallbackResponse(req[w].prompt_lower, req[w].org, gemini_error, fault)
       IN  req' = [req EXCEPT ![w].pc = "done",
                              ![w].heuristic = out.heuristic,
                              ![w].executed = out.executed,
                              ![w].result = out.result,
                              ![w].fault = fault,
                              ![w].response = out.response]
    /\ UNCHANGED <<last_gemini_error, catalog, plannerVars, sync>>

\* The translator branch falling back to the planner when no plan is parsed.
TranslatorResponse_FallbackOnNoPlan(prompt_lower, org, text, fault) ==
    LET extracted == ExtractJson(text)
        raw == IF extracted = NoPlan THEN CreateFallbackPlan(prompt_lower) ELSE extracted
        plan == ApplyChartTypeFromPrompt(prompt_lower, raw)
        result == RunPlan(plan, org, fault)
    IN  [extracted |-> extracted,
         heuristic |-> IF extracted = NoPlan THEN raw ELSE NoPlan,
         executed |-> MkRun(plan, org, result.raised),
         result |-> result,
         response |->
            IF result.raised
            THEN MkResponse(500, None, plan, ExecErrorAnswer, None, None,
                            FALSE, None, FALSE)
            ELSE MkResponse(200, None, plan,
                            GetOr(result.answer, ExecutedDefaultAnswer),
                            result.chart, result.table, FALSE, None, FALSE)]

\* A variant that takes the tenant from the plan's filters when they name one.
TranslatorResponse_TenantFromFilters(prompt_lower, org, text, fault) ==
    LET extracted == ExtractJson(text) IN
    IF extracted = NoPlan
    THEN [extracted |-> NoPlan, heuristic |-> NoPlan, executed |-> NoRun,
          result |-> NoResult,
          response |-> MkResponse(200, None, NoPlan, ParseFailAnswer, None, None,
                                  FALSE, None, FALSE)]
    ELSE LET plan == ApplyChartTypeFromPrompt(prompt_lower, extracted)
             tenant == IF \E f \in plan.filters : f.key = "organization"
                       THEN (CHOOSE f \in plan.filters : f.key = "organization").value
                       ELSE org
             result == RunPlan(plan, tenant, fault)
         IN  [extracted |-> extracted, heuristic |-> NoPlan,
              executed |-> MkRun(plan, tenant, result.raised),
              result |-> result,
              response |->
                 IF result.raised
                 THEN MkResponse(500, None, plan, ExecErrorAnswer, None, None,
                                 FALSE, None, FALSE)
                 ELSE MkResponse(200, None, plan,
                                 GetOr(result.answer, ExecutedDefaultAnswer),
                                 result.chart, result.table, FALSE, None, FALSE)]

\* A variant whose run_plan call has no try/except.
TranslatorResponse_Unguarded(prompt_lower, org, text, fault) ==
    LET extracted == ExtractJson(text) IN
    IF extracted = NoPlan
    THEN [extracted |-> NoPlan, heuristic |-> NoPlan, executed |-> NoRun,
          result |-> NoResult,
          response |-> MkResponse(200, None, NoPlan, ParseFailAnswer, None, None,
                                  FALSE, None, FALSE)]
    ELSE LET plan == ApplyChartTypeFromPrompt(prompt_lower, extracted)
             tenant == org
             result == RunPlan(plan, tenant, fault)
         IN  [extracted |-> extracted, heuristic |-> NoPlan,
              executed |-> MkRun(plan, tenant, result.raised),
              result |-> result,
              response |->
                 IF result.raised
                 THEN MkResponse(500, None, NoPlan, None, None, None,
                                 FALSE, None, TRUE)
                 ELSE MkResponse(200, None, plan,
                                 GetOr(result.answer, ExecutedDefaultAnswer),
                                 result.chart, result.table, FALSE, None, FALSE)]

\* Lines 307-340: extract_json, the resolver, the guarded run.
TranslatorResponse(prompt_lower, org, text, fault) ==
    LET extracted == ExtractJson(text) IN
    IF extracted = NoPlan
    THEN [extracted |-> NoPlan, heuristic |-> NoPlan, executed |-> NoRun,
          result |-> NoResult,
          response |-> MkResponse(200, None, NoPlan, ParseFailAnswer, None, None,
                                  FALSE, None, FALSE)]
    ELSE LET plan == ApplyChartTypeFromPrompt(prompt_lower, extracted)
             result == RunPlan(plan, org, fault)
         IN  [extracted |-> extracted, heuristic |-> NoPlan,
              executed |-> MkRun(plan, org, result.raised),
              result |-> result,
              response |->
                 IF result.raised
                 THEN MkResponse(500, None, plan, ExecErrorAnswer, None, None,
                                 FALSE, None, FALSE)
                 ELSE MkResponse(200, None, plan,
                                 GetOr(result.answer, ExecutedDefaultAnswer),
                                 result.chart, result.table, FALSE, None, FALSE)]

\* Lines 307-340: the branch taken when ask_gemini returned text.
TranslatorPath(w, fault) ==
    /\ req[w].pc = "returned"
    /\ req[w].gemini_response # NoText
    /\ LET out == TranslatorResponse(req[w].prompt_lower, req[w].org,
                                     req[w].gemini_response, fault)
       IN  req' = [req EXCEPT ![w].pc = "done",
                              ![w].extracted = out.extracted,
                              ![w].heuristic = out.heuristic,
                              ![w].executed = out.executed,
                              ![w].result = out.result,
                              ![w].fault = fault,
                              ![w].response = out.response]
    /\ UNCHANGED <<last_gemini_error, catalog, plannerVars, sync>>

\* The response is sent; the worker takes the next request.
Complete(w) ==
    /\ req[w].pc = "done"
    /\ req' = [req EXCEPT ![w] = IdleReq]
    /\ UNCHANGED <<last_gemini_error, catalog, plannerVars, sync>>

\* GET /schema: SchemaAPIView.get, lines 350-362.
GetSchema(w) ==
    /\ req[w].pc = "idle"
    /\ req' = [req EXCEPT ![w] =
            [IdleReq EXCEPT !.pc = "done", !.view = "SchemaAPIView",
                            !.datasets = SchemaDatasets,
                            !.response = MkResponse(200, None, NoPlan, None, None,
                                                    None, FALSE, None, FALSE)]]
    /\ UNCHANGED <<last_gemini_error, catalog, plannerVars, sync>>

(***************************************************************************)
(* Field Catalog: the is_enabled flag of the FieldCatalog rows.            *)
(***************************************************************************)
\* A variant that creates the missing rows and leaves existing rows as they
\* are (get_or_create).
Handle_GetOrCreate(rows, truncate) ==
    LET kept == IF truncate THEN {} ELSE DOMAIN rows
    IN  [k \in kept \cup AllCatalogKeys |-> IF k \in kept THEN rows[k] ELSE TRUE]

\* seed_field_catalog, Command.handle, lines 59-140, on the rows of the table:
\* --truncate deletes every row first (60-61); update_or_create(key=...)
\* with "is_enabled": True in the defaults for every scanned field.
Handle(rows, truncate) ==
    LET kept == IF truncate THEN {} ELSE DOMAIN rows
    IN  [k \in kept \cup AllCatalogKeys |->
            IF k \in AllCatalogKeys THEN TRUE ELSE rows[k]]

\* A run of `manage.py seed_field_catalog [--truncate]` that changes a row.
SeedFieldCatalog(truncate) ==
    /\ Handle(catalog, truncate) # catalog
    /\ catalog' = Handle(catalog, truncate)
    /\ UNCHANGED <<last_gemini_error, req, plannerVars, sync>>

\* A row's is_enabled flag is cleared (FieldCatalog.is_enabled, models.py).
DisableField(k) ==
    /\ IsEnabled(k)
    /\ catalog' = [catalog EXCEPT ![k] = FALSE]
    /\ UNCHANGED <<last_gemini_error, req, plannerVars, sync>>

(***************************************************************************)
(* Planner harness: the Heuristic Planner and the Chart-Type Resolver      *)
(* applied to prompts built from Fragments.                                *)
(***************************************************************************)
Fragments ==
    <<"pie", "bar", "line", "chart", "list", "staff", "customer", "project",
      "bookings", "units", "campaign", "revenue", "breakdown">>

RECURSIVE JoinFragments(_)
\* " ".join(Fragments[i] for i in ixs)
JoinFragments(ixs) ==
    IF Len(ixs) = 0 THEN ""
    ELSE IF Len(ixs) = 1 THEN Fragments[ixs[1]]
    ELSE Fragments[ixs[1]] \o " " \o JoinFragments(Tail(ixs))

PlannerTexts ==
    { JoinFragments(ixs) :
        ixs \in UNION { [1..n -> 1..Len(Fragments)] : n \in 0..MaxWords } }

ChartTypes == {"bar", "line", "pie", "table", "answer"}

\* Plans of any chart_type, with and without dimensions, as extract_json may
\* hand them to the resolver.
AnyPlans ==
    { MkPlan("customer", <<>>, dims, ct, 50) :
        dims \in {<<>>, <<"status">>}, ct \in ChartTypes }
    \cup { WithFilters(MkPlan("booking", <<"booking_value">>, <<"project">>,
                              "table", 10),
                       {Filter("status", "booked")}) }

InitReq ==
    /\ last_gemini_error = None
    /\ req = [w \in Workers |-> IdleReq]
    /\ catalog = [k \in AllCatalogKeys |-> TRUE]

\* No run of the command recorded.
NoSync(rows) == [options |-> <<>>, before |-> rows]

InitSyncIdle == sync = NoSync(catalog)

InitPlannerIdle ==
    /\ ptext = ""
    /\ pplan = NoPlan
    /\ pout = NoPlan
    /\ pstage = "off"

\* Lines 294-295: the planner's plan for the text, then the resolver on it.
ResolveHeuristic ==
    /\ pstage = "text"
    /\ pplan' = CreateFallbackPlan(ptext)
    /\ pout' = ApplyChartTypeFromPrompt(ptext, CreateFallbackPlan(ptext))
    /\ pstage' = "resolved_heuristic"
    /\ UNCHANGED <<ptext, reqVars, sync>>

\* Lines 308 and 319: a plan parsed from the model's text, then the resolver.
ResolveTranslated(plan) ==
    /\ pstage = "text"
    /\ pplan' = plan
    /\ pout' = ApplyChartTypeFromPrompt(ptext, plan)
    /\ pstage' = "resolved_translated"
    /\ UNCHANGED <<ptext, reqVars, sync>>

(***************************************************************************)
(* Catalog harness: runs of seed_field_catalog on tables as earlier runs,  *)
(* cleared is_enabled flags and changes of the models leave them.          *)
(***************************************************************************)
\* Runs of the command in one behaviour of the harness.
MaxRuns == 2

\* The keys whose rows differ between the tables of the harness.
VaryKeys ==
    {"employee.role", "customer.status", "booking.project", "customer.legacy_code"}

\* The tables: the empty one (no run yet), and those in which each row of
\* VaryKeys is absent, enabled or disabled and every other scanned field has
\* its row, enabled.
SeedableCatalogs ==
    { [k \in (AllCatalogKeys \ VaryKeys) \cup DOMAIN f |->
            IF k \in DOMAIN f THEN f[k] ELSE TRUE] :
        f \in UNION { [S -> BOOLEAN] : S \in SUBSET VaryKeys } }
    \cup { [k \in {} |-> TRUE] }

InitCatalog ==
    /\ last_gemini_error = None
    /\ req = [w \in Workers |-> IdleReq]
    /\ catalog \in SeedableCatalogs
    /\ InitPlannerIdle
    /\ InitSyncIdle

\* One run of the command, recorded: its option and the table before it.
RunSeedFieldCatalog(truncate) ==
    /\ Len(sync.options) < MaxRuns
    /\ catalog' = Handle(catalog, truncate)
    /\ sync' = [options |-> Append(sync.options, truncate), before |-> catalog]
    /\ UNCHANGED <<last_gemini_error, req, plannerVars>>

(***************************************************************************)
(* Specifications.                                                         *)
(***************************************************************************)
Init == InitReq /\ InitPlannerIdle /\ InitSyncIdle

\* One request at a time, every input.
MainWorker == "w1"

Next ==
    \/ \E p \in RequestPrompts, t \in Orgs \cup {None} : Post(MainWorker, p, t)
    \/ AskGeminiReset(MainWorker)
    \/ \E o \in Outcomes : AskGeminiCall(MainWorker, o)
    \/ \E fault \in BOOLEAN : FallbackPath(MainWorker, fault)
    \/ \E fault \in BOOLEAN : TranslatorPath(MainWorker, fault)
    \/ Complete(MainWorker)
    \/ GetSchema(MainWorker)
    \/ \E truncate \in BOOLEAN : SeedFieldCatalog(truncate)
    \/ \E k \in CatalogKeys : DisableField(k)

\* POST /query requests served one after the other.
Spec == Init /\ [][Next]_vars

\* The steps post and ask_gemini take on their own.  The step that ends
\* model.generate_content (gemini_client.py line 58) is not among them: the
\* call is made without a timeout or deadline argument, so only the external
\* model's answer or failure (AskGeminiCall) ends it.
HandlerStep(w) ==
    \/ AskGeminiReset(w)
    \/ \E fault \in BOOLEAN : FallbackPath(w, fault)
    \/ \E fault \in BOOLEAN : TranslatorPath(w, fault)

\* Inputs of the concurrent specification.
ConcurrentPrompts == {"what's my total revenue?", " What's my total REVENUE?"}

ConcurrentOutcomes ==
    { o \in Outcomes :
        \/ o.kind \in {"no_api_key", "blocked"}
        \/ o.kind = "candidates" /\ o.finish = "MAX_TOKENS" /\ o.text.kind = "prose" }

NextConcurrent ==
    \/ \E w \in Workers, p \in ConcurrentPrompts, t \in Orgs : Post(w, p, t)
    \/ \E w \in Workers : AskGeminiReset(w)
    \/ \E w \in Workers, o \in ConcurrentOutcomes : AskGeminiCall(w, o)
    \/ \E w \in Workers : FallbackPath(w, FALSE)
    \/ \E w \in Workers : TranslatorPath(w, FALSE)
    \/ \E w \in Workers : Complete(w)
    \/ \E truncate \in BOOLEAN : SeedFieldCatalog(truncate)
    \/ \E k \in CatalogKeys : DisableField(k)

\* Two worker threads serving POST /query at the same time.
SpecConcurrent == Init /\ [][NextConcurrent]_vars

NextCatalog == \E truncate \in BOOLEAN : RunSeedFieldCatalog(truncate)

\* The catalog-sync command run up to MaxRuns times on every table.
SpecCatalog == InitCatalog /\ [][NextCatalog]_vars

InitPlanner ==
    /\ InitReq
    /\ InitSyncIdle
    /\ ptext \in PlannerTexts
    /\ pplan = NoPlan
    /\ pout = NoPlan
    /\ pstage = "text"

NextPlanner ==
    \/ ResolveHeuristic
    \/ \E plan \in AnyPlans : ResolveTranslated(plan)

\* The planner and the resolver as functions of the prompt text.
SpecPlanner == InitPlanner /\ [][NextPlanner]_vars

(***************************************************************************)
(* Properties.                                                             *)
(***************************************************************************)
\* The translator failures: ask_gemini has no text to return.
FailureOutcome(o) ==
    \/ o.kind \in {"no_dependency", "no_api_key", "transport_error",
                   "no_response", "blocked", "no_candidates"}
    \/ o.kind = "candidates" /\ o.text.kind \in {"unreadable", "empty", "blank"}

\* The request of worker w has been answered.
Done(w) == req[w].pc = "done"

\* The plan a request hands to the resolver.
RawPlan(w) == IF req[w].heuristic # NoPlan THEN req[w].heuristic ELSE req[w].extracted

\* C1: after any translator failure (missing dependency, missing credential,
\* transport error, blocked response, empty text), and unless the run itself
\* faults, the request is answered 200 with the plan of the Heuristic Planner
\* passed through the Chart-Type Resolver and executed; no error payload.
C1_FailureFallsBack ==
    \A w \in Workers :
        (Done(w) /\ FailureOutcome(req[w].outcome) /\ ~req[w].executed.raised) =>
            /\ req[w].response.status = 200
            /\ req[w].response.error = None
            /\ ~req[w].response.unhandled
            /\ req[w].response.gemini_failed
            /\ req[w].heuristic = CreateFallbackPlan(req[w].prompt_lower)
            /\ req[w].executed =
                 MkRun(ApplyChartTypeFromPrompt(req[w].prompt_lower, req[w].heuristic),
                       req[w].org, FALSE)
            /\ req[w].response.plan = req[w].executed.plan

\* C1 witness: a blocked response answered 200 from an executed fallback plan.
C1_Witness ==
    \E w \in Workers :
        /\ Done(w)
        /\ req[w].outcome.kind = "blocked"
        /\ req[w].executed.called
        /\ req[w].response.status = 200
        /\ req[w].response.plan.dataset = "employee"

\* C2: the gemini_error of a fallback response is the cause recorded by that
\* request's own ask_gemini call.
C2_OwnCauseReported ==
    \A w \in Workers :
        (Done(w) /\ req[w].response.gemini_failed) =>
            req[w].response.gemini_error = req[w].cause

\* C3: model text without a JSON object is answered "could not parse" with
\* plan, chart and table null; neither the planner nor the executor runs.
C3_ProseIsParseError ==
    \A w \in Workers :
        (Done(w) /\ req[w].outcome.kind = "candidates"
                 /\ req[w].outcome.text.kind = "prose") =>
            /\ req[w].response.answer = ParseFailAnswer
            /\ req[w].response.plan = NoPlan
            /\ req[w].response.chart = None
            /\ req[w].response.table = None
            /\ req[w].heuristic = NoPlan
            /\ ~req[w].executed.called

\* C3 witness: a request whose model answered prose has been answered.
C3_Witness ==
    \E w \in Workers :
        /\ Done(w)
        /\ req[w].outcome.kind = "candidates"
        /\ req[w].outcome.text.kind = "prose"
        /\ req[w].response.status = 200

\* The translator yielded no Plan for the request of w: no text, or text in
\* which extract_json finds no object.
NoPlanFromTranslator(w) ==
    /\ req[w].outcome # NoOutcome
    /\ \/ req[w].gemini_response = NoText
       \/ req[w].extracted = NoPlan

\* C4 as stated: whenever the translator yields no Plan, also when the model
\* answered without a JSON object, the Heuristic Planner builds the plan.
C4_NoPlanAlwaysPlans ==
    \A w \in Workers :
        (Done(w) /\ NoPlanFromTranslator(w)) =>
            req[w].heuristic = CreateFallbackPlan(req[w].prompt_lower)

\* C4 amended: the Heuristic Planner builds the plan exactly when the
\* translator call returned no text; a model answer without a JSON object
\* does not invoke it.
C4_PlannerIffNoText ==
    \A w \in Workers :
        (Done(w) /\ req[w].outcome # NoOutcome) =>
            IF req[w].gemini_response = NoText
            THEN req[w].heuristic = CreateFallbackPlan(req[w].prompt_lower)
            ELSE req[w].heuristic = NoPlan

\* C4 witness: an empty model text made the planner build the plan.
C4_Witness ==
    \E w \in Workers :
        /\ Done(w)
        /\ req[w].outcome.kind = "candidates"
        /\ req[w].outcome.text.kind = "empty"
        /\ req[w].heuristic.dataset = "org_kpi"

\* C5: run_plan is only called on the plan as the resolver left it, the
\* resolver having been given the lowercased prompt, on both paths.
C5_ExecutedPlanIsResolved ==
    \A w \in Workers :
        req[w].executed.called =>
            /\ RawPlan(w) # NoPlan
            /\ req[w].executed.plan =
                 ApplyChartTypeFromPrompt(Lower(req[w].prompt), RawPlan(w))

\* C5 witness: a heuristic plan whose chart_type the resolver changed was run.
C5_Witness ==
    \E w \in Workers :
        /\ req[w].executed.called
        /\ req[w].heuristic # NoPlan
        /\ req[w].executed.plan # req[w].heuristic

\* The harness has applied the resolver to ptext and pplan.
Resolved == pstage \in {"resolved_heuristic", "resolved_translated"}

\* The harness holds a plan of the Heuristic Planner for ptext.
Planned == pstage = "resolved_heuristic"

\* C6: the resolver's explicit cues are tried in the order pie, bar, line and
\* the first that matches decides chart_type, whatever the plan's chart_type
\* and dimensions were; "pie chart" in the text always gives pie.
C6_FirstCueWins ==
    Resolved =>
        /\ PieCue(ptext) => pout.chart_type = "pie"
        /\ (~PieCue(ptext) /\ BarCue(ptext)) => pout.chart_type = "bar"
        /\ (~PieCue(ptext) /\ ~BarCue(ptext) /\ LineCue(ptext)) =>
                pout.chart_type = "line"
        /\ Contains("pie chart", ptext) => pout.chart_type = "pie"

\* C6 witness: "pie chart" beside a bar cue, on a grouped table plan.
C6_Witness ==
    /\ Resolved
    /\ Contains("pie chart", ptext)
    /\ BarCue(ptext)
    /\ pplan.chart_type = "table"
    /\ pplan.dimensions = <<"status">>
    /\ pout.chart_type = "pie"

\* C7: with no explicit cue, chart_type becomes pie exactly when the plan has
\* a dimension and its chart_type is table or answer; otherwise it is kept.
C7_DefaultUpgrade ==
    (Resolved /\ ~PieCue(ptext) /\ ~BarCue(ptext) /\ ~LineCue(ptext)) =>
        pout.chart_type =
            IF Len(pplan.dimensions) >= 1 /\ pplan.chart_type \in {"table", "answer"}
            THEN "pie" ELSE pplan.chart_type

\* C7 witness: no cue, no dimension, chart_type answer: left unchanged.
C7_Witness ==
    /\ Resolved
    /\ ~PieCue(ptext) /\ ~BarCue(ptext) /\ ~LineCue(ptext)
    /\ Contains("pie", ptext)
    /\ pplan.dimensions = <<>>
    /\ pplan.chart_type = "answer"
    /\ pout.chart_type = "answer"

\* A Plan as the planner builds it.
WellFormedPlan(plan) ==
    /\ plan.dataset \in RegisteredDatasets
    /\ plan.chart_type \in ChartTypes
    /\ plan.limit \in 1..50

CategoryWords ==
    <<EmployeeWords, CustomerWords, ProjectWords, BookingWords, UnitWords,
      MarketingWords, RevenueWords>>

CategoryDataset ==
    <<"employee", "customer", "project", "booking", "unit", "marketing_campaign",
      "org_kpi">>

\* The categories one of whose keywords occurs in the text.
CategoryHits(text) == { i \in 1..Len(CategoryWords) : AnyIn(CategoryWords[i], text) }

\* C9: the planner's dataset is that of the first category, in the fixed
\* order, with a keyword in the text; with none it is the default plan on
\* org_kpi with metrics [revenue_booked] and chart_type answer.
C9_FirstCategoryWins ==
    Planned =>
        LET hits == CategoryHits(ptext) IN
        IF hits = {}
        THEN /\ pplan.dataset = "org_kpi"
             /\ pplan.metrics = <<"revenue_booked">>
             /\ pplan.chart_type = "answer"
        ELSE pplan.dataset =
                CategoryDataset[CHOOSE i \in hits : \A j \in hits : i <= j]

\* C9 witness: a text with a project and a booking keyword planned on project.
C9_Witness ==
    /\ Planned
    /\ AnyIn(ProjectWords, ptext)
    /\ AnyIn(BookingWords, ptext)
    /\ pplan.dataset = "project"

\* C10: for "what's my total revenue?" with the model unavailable the planner
\* yields {org_kpi, [revenue_booked], [], answer, limit 1}.
C10_TotalRevenuePlan ==
    \A w \in Workers :
        (/\ Done(w)
         /\ req[w].prompt = "what's my total revenue?"
         /\ FailureOutcome(req[w].outcome)) =>
            req[w].heuristic =
                MkPlan("org_kpi", <<"revenue_booked">>, <<>>, "answer", 1)

\* C11: for the prompt "show employees by role" the Heuristic Planner yields
\* {dataset: employee, dimensions: [role], chart_type: bar, limit: 50}, be it
\* read as the planner's own plan or as the plan after the resolver.
C11_ShowEmployeesByRole ==
    \A w \in Workers :
        (/\ Done(w)
         /\ req[w].prompt_lower = "show employees by role"
         /\ req[w].heuristic # NoPlan) =>
            LET bar == MkPlan("employee", <<>>, <<"role">>, "bar", 50)
            IN  req[w].heuristic = bar \/ req[w].executed.plan = bar

\* The secondary keyword list of each category, in the order of CategoryWords;
\* the revenue category has no secondary check.
SecondaryWords ==
    << <<"by role", "by department", "breakdown">>,
       <<"by status", "breakdown", "by stage">>,
       <<"by status", "breakdown">>,
       <<"by project", "breakdown">>,
       <<"by status", "breakdown">>,
       <<"by channel", "breakdown">>,
       <<>> >>

\* Line 221: the words that group the project category by name.
ProjectListWords == <<"list", "show", "all", "graph", "chart">>

\* The metrics of each category's plan without dimensions.
DegenerateMetrics ==
    << <<>>, <<>>, <<>>, <<"booking_value">>, <<>>,
       <<"spend", "leads", "bookings">>,
       <<"revenue_booked", "revenue_collected">> >>

\* The first category, in the fixed order, with a keyword in the text.
FirstHit(text) == CHOOSE i \in CategoryHits(text) : \A j \in CategoryHits(text) : i <= j

\* C12 as stated: in every matched category the secondary keyword check
\* alone decides: a secondary keyword gives a grouped plan, none gives the
\* plan with empty metrics and dimensions, limit 1 and chart_type answer.
C12_SecondaryAloneDecides ==
    (Planned /\ CategoryHits(ptext) # {}) =>
        IF AnyIn(SecondaryWords[FirstHit(ptext)], ptext)
        THEN Len(pplan.dimensions) > 0
        ELSE /\ pplan.metrics = <<>>
             /\ pplan.dimensions = <<>>
             /\ pplan.limit = 1
             /\ pplan.chart_type = "answer"

\* C12 amended: a secondary keyword of the matched category gives a grouped
\* plan with limit 50, and so does list/show/all/graph/chart in the project
\* category; otherwise the plan has no dimensions, limit 1 and chart_type
\* answer, with empty metrics for employee, customer, project and unit and
\* the category's metrics for booking, marketing_campaign and revenue.
C12_ShapeByCategory ==
    (Planned /\ CategoryHits(ptext) # {}) =>
        LET i == FirstHit(ptext)
            grouped == \/ AnyIn(SecondaryWords[i], ptext)
                       \/ (i = 3 /\ AnyIn(ProjectListWords, ptext))
        IN  IF grouped
            THEN /\ Len(pplan.dimensions) > 0
                 /\ pplan.limit = 50
            ELSE /\ pplan.metrics = DegenerateMetrics[i]
                 /\ pplan.dimensions = <<>>
                 /\ pplan.limit = 1
                 /\ pplan.chart_type = "answer"

\* C12 witness: a project text with "list" and no secondary keyword, grouped
\* by name.
C12_Witness ==
    /\ Planned
    /\ CategoryHits(ptext) # {}
    /\ FirstHit(ptext) = 3
    /\ ~AnyIn(SecondaryWords[3], ptext)
    /\ Contains("list", ptext)
    /\ pplan.dimensions = <<"name">>

\* ask_gemini was called for the request of w and has returned or raised.
Asked(w) == req[w].outcome # NoOutcome

\* An exception left ask_gemini and so post, before any plan was run.
AskRaised(w) == req[w].response.unhandled /\ ~req[w].executed.called

\* C13: ask_gemini never raises; for a missing dependency, a missing
\* credential, a transport error, a blocked, an unreadable and an empty
\* response it returns None, and what it returns otherwise is the model's
\* non-empty text.
C13_AskGeminiReturnsNoneOrText ==
    \A w \in Workers :
        Asked(w) =>
            /\ ~AskRaised(w)
            /\ req[w].pc \in {"returned", "done"}
            /\ FailureOutcome(req[w].outcome) => req[w].gemini_response = NoText
            /\ req[w].gemini_response # NoText =>
                    /\ req[w].outcome.kind = "candidates"
                    /\ req[w].outcome.text.kind \in {"prose", "json"}
                    /\ req[w].gemini_response = req[w].outcome.text

\* C13 witness: a transport error came back to post as None.
C13_Witness ==
    \E w \in Workers :
        /\ req[w].pc = "returned"
        /\ req[w].outcome.kind = "transport_error"
        /\ req[w].gemini_response = NoText

\* The four failures the spec tells apart.
FailureClass(o) ==
    IF o.kind = "no_dependency" THEN "dependency"
    ELSE IF o.kind = "no_api_key" THEN "credential"
    ELSE IF o.kind = "blocked" THEN "blocked"
    ELSE IF o.kind = "candidates" /\ IsEmptyText(o.text) THEN "empty"
    ELSE "other"

\* C14: with one request at a time, a call of ask_gemini that returns None
\* has stored a cause, the response with gemini_failed carries that cause and
\* never none, and the causes of the dependency, credential, blocked and
\* empty failures differ from one another.
C14_CauseRecorded ==
    /\ \A w \in Workers :
          (Asked(w) /\ req[w].gemini_response = NoText) =>
              /\ req[w].cause # None
              /\ req[w].cause # ""
              /\ (Done(w) /\ req[w].response.gemini_failed) =>
                      req[w].response.gemini_error = req[w].cause
    /\ \A w \in Workers :
          (Done(w) /\ req[w].response.gemini_failed) =>
              req[w].response.gemini_error # None
    /\ \A o1, o2 \in Outcomes :
          (/\ FailureClass(o1) # "other"
           /\ FailureClass(o2) # "other"
           /\ FailureClass(o1) # FailureClass(o2)) =>
                AskGeminiResult(o1).err # AskGeminiResult(o2).err

\* C14 witness: an empty model text answered with its own cause.
C14_Witness ==
    \E w \in Workers :
        /\ Done(w)
        /\ FailureClass(req[w].outcome) = "empty"
        /\ req[w].response.gemini_failed
        /\ req[w].response.gemini_error = ErrEmptyText

\* The tenant a record belongs to.
RowOrg(id) == (CHOOSE r \in Rows : r.id = id).org

\* C15: run_plan is given the tenant get_org resolved for the request, not a
\* tenant named by the plan's filters, and whatever those filters hold every
\* record it reads belongs to that tenant.
C15_TenantIsolation ==
    \A w \in Workers :
        req[w].executed.called =>
            /\ req[w].org \in Orgs
            /\ req[w].executed.org = req[w].org
            /\ \A id \in req[w].result.read : RowOrg(id) = req[w].org

\* C15 witness: a plan whose filters name tenant orgB, run for tenant orgA
\* over orgA's customers.
C15_Witness ==
    \E w \in Workers :
        /\ Done(w)
        /\ req[w].org = "orgA"
        /\ Filter("organization", "orgB") \in req[w].executed.plan.filters
        /\ req[w].result.read = {1, 2, 3}

\* C16: a plan with a dimension gets at most as many groups as its limit
\* clamped to 1..50: never more than 50, at most L for L in 1..50, one for a
\* limit below 1.
C16_GroupCountWithinLimit ==
    \A w \in Workers :
        (/\ req[w].executed.called
         /\ ~req[w].result.raised
         /\ Len(req[w].executed.plan.dimensions) >= 1) =>
            LET L == req[w].executed.plan.limit
                n == Cardinality(req[w].result.groups)
            IN  /\ n <= 50
                /\ L \in 1..50 => n <= L
                /\ L < 1 => n <= 1

\* C16 witness: limit 80 over 51 floors gave 50 groups.
C16_Witness ==
    \E w \in Workers :
        /\ req[w].executed.called
        /\ req[w].executed.plan.limit = 80
        /\ Cardinality(req[w].result.groups) = 50

\* An entry of a schema listing is an enabled catalog row under its dataset.
EnabledEntry(e) ==
    \E i \in 1..Len(FieldRows) :
        /\ FieldKey(FieldRows[i]) = e.key
        /\ FieldRows[i][1] = e.dataset
        /\ catalog[e.key]

\* C17: a listing built by GET /schema or for the model's prompt holds only
\* entries that are enabled when the request builds it, each under its own
\* dataset; an entry disabled before the request is in neither listing.
C17_ListingsOnlyEnabled ==
    [][\A w \in Workers :
          req'[w].datasets # req[w].datasets =>
              \A e \in req'[w].datasets : EnabledEntry(e)]_vars

\* C17 witness: GET /schema answered without a key that is disabled.
C17_Witness ==
    \E w \in Workers :
        /\ Done(w)
        /\ req[w].view = "SchemaAPIView"
        /\ ~catalog["customer.status"]
        /\ [dataset |-> "customer", key |-> "customer.status"] \notin req[w].datasets
        /\ [dataset |-> "employee", key |-> "employee.role"] \in req[w].datasets

\* The key names an enabled catalog row of the dataset.
ResolvesToEnabled(dataset, key) ==
    \E i \in 1..Len(FieldRows) :
        /\ FieldRows[i][1] = dataset
        /\ FieldRows[i][2] = key
        /\ catalog[FieldKey(FieldRows[i])]

\* C18: a run on a registered dataset without a fault never raises, whatever
\* keys the plan names; the groups are keyed by the dimensions that resolve
\* to an enabled entry of the dataset when the plan is run, the others being
\* dropped; when no metric and no dimension is left the result is the bare
\* row count.
C18_BadKeysDropped ==
    [][\A w \in Workers :
          (/\ ~req[w].executed.called
           /\ req'[w].executed.called
           /\ ~req'[w].fault
           /\ req'[w].executed.plan.dataset \in RegisteredDatasets) =>
              LET plan == req'[w].executed.plan
                  dims == SelectSeq(plan.dimensions,
                                    LAMBDA k : ResolvesToEnabled(plan.dataset, k))
                  metrics == SelectSeq(plan.metrics,
                                       LAMBDA k : ResolvesToEnabled(plan.dataset, k))
              IN  /\ ~req'[w].result.raised
                  /\ req'[w].response.status = 200
                  /\ req'[w].response.plan = plan
                  /\ Len(dims) > 0 =>
                        \A g \in req'[w].result.groups : Len(g.key) = Len(dims)
                  /\ (Len(dims) = 0 /\ Len(metrics) = 0) =>
                        \E n \in 0..Cardinality(req'[w].result.read) :
                            req'[w].result.groups =
                                { [key |-> <<"count">>, vals |-> <<n>>, place |-> 1] }
      ]_vars

\* C18 witness: with customer.status disabled, the plan naming status, a
\* dimension of another dataset and an unknown metric counted orgA's three
\* customers.
C18_Witness ==
    \E w \in Workers :
        /\ Done(w)
        /\ req[w].org = "orgA"
        /\ req[w].executed.plan.dimensions = <<"status", "role">>
        /\ req[w].executed.plan.metrics = <<"shoe_size">>
        /\ req[w].response.status = 200
        /\ req[w].response.chart = "pie"
        /\ req[w].result.groups = { [key |-> <<"count">>, vals |-> <<3>>, place |-> 1] }

C20_FaultCaughtOnEveryPath ==
    \A w \in Workers :
        (Done(w) /\ req[w].executed.called /\ req[w].fault) =>
            /\ ~req[w].response.unhandled
            /\ req[w].response.status = 500
            /\ req[w].response.answer = ExecErrorAnswer

\* The request was served by AskAPIView.post.
AskServed(w) == Done(w) /\ req[w].view = "AskAPIView"

\* C21 (as stated): a user's mistake on POST /query, an empty prompt
\* included, is answered 200 with text; a status other than 200 is returned
\* only when the run of the plan faults.
C21_MistakesAnswered200 ==
    \A w \in Workers :
        (AskServed(w) /\ req[w].tenant # None) =>
            /\ ~req[w].executed.raised =>
                    /\ req[w].response.status = 200
                    /\ req[w].response.answer # None
            /\ req[w].response.status # 200 => req[w].executed.raised

\* C21 (amended): POST /query answers 400 exactly for an empty or
\* whitespace-only prompt, 403 exactly for a non-empty prompt without a
\* tenant, 500 exactly when the run of the plan raised, and otherwise 200
\* with a text answer.
C21_StatusByCause ==
    \A w \in Workers :
        AskServed(w) =>
            /\ req[w].response.status \in {200, 400, 403, 500}
            /\ req[w].response.status = 400 <=> req[w].prompt = ""
            /\ req[w].response.status = 403 <=>
                    (req[w].prompt # "" /\ req[w].tenant = None)
            /\ req[w].response.status = 500 <=> req[w].executed.raised
            /\ req[w].response.status = 200 => req[w].response.answer # None
            /\ req[w].response.status \in {400, 403} =>
                    /\ req[w].response.error # None
                    /\ req[w].response.answer = None

\* C21 witness: a whitespace-only prompt of a user with a tenant was
\* answered 400 with an error text and no answer.
C21_Witness ==
    \E w \in Workers :
        /\ AskServed(w)
        /\ req[w].prompt = ""
        /\ req[w].tenant = "orgA"
        /\ req[w].response.status = 400
        /\ req[w].response.error = "Prompt is required."

\* None of the resolver's explicit cues is in the text.
NoCue(text) == ~PieCue(text) /\ ~BarCue(text) /\ ~LineCue(text)

\* The text asks for a flat list.
AsksFlatList(text) == Contains("list", text) \/ Contains("table", text)

\* C24: a grouped plan with chart_type "table" whose text asks for a flat
\* list ("list" or "table") and holds no pie/bar/line cue still has chart_type
\* "table" after the Chart-Type Resolver.
C24_FlatListKept ==
    (/\ Resolved
     /\ Len(pplan.dimensions) > 0
     /\ pplan.chart_type = "table"
     /\ AsksFlatList(ptext)
     /\ NoCue(ptext)) =>
        pout.chart_type = "table"

\* The literal cues of chart intent in the order they are tried.
IntentCues ==
    << [intent |-> "pie", cues |-> {"pie"}],
       [intent |-> "bar", cues |-> {"bar"}],
       [intent |-> "line", cues |-> {"line", "trend"}],
       [intent |-> "table", cues |-> {"table", "list", "show"}] >>

\* The intent of the first entry of IntentCues with a cue in the text.
ChartIntent(text) ==
    LET hits == { i \in 1..Len(IntentCues) :
                    \E c \in IntentCues[i].cues : Contains(c, text) }
    IN  IF hits = {} THEN "answer"
        ELSE IntentCues[CHOOSE i \in hits : \A j \in hits : i <= j].intent

\* The default chart_type of a category's grouped plan.
GroupedDefault(plan) ==
    IF plan.dataset \in {"employee", "booking"} THEN "bar"
    ELSE IF plan.dataset = "project" /\ plan.dimensions = <<"name">> THEN "bar"
    ELSE "pie"

C26_ChartHasDimension ==
    (Planned /\ pout.chart_type \in {"pie", "bar", "line"}) =>
        Len(pout.dimensions) >= 1

\* C28: the Chart-Type Resolver changes nothing but chart_type: dataset,
\* metrics, dimensions, filters and limit of the plan are after the call what
\* they were before it, for every plan and every text.
C28_OnlyChartTypeChanges ==
    Resolved =>
        /\ pout.dataset = pplan.dataset
        /\ pout.metrics = pplan.metrics
        /\ pout.dimensions = pplan.dimensions
        /\ pout.filters = pplan.filters
        /\ pout.limit = pplan.limit
        /\ DOMAIN pout = DOMAIN pplan

\* C28 witness: a plan with a metric, a dimension, a filter and limit 10 had
\* its chart_type changed from table to bar and kept the rest.
C28_Witness ==
    /\ Resolved
    /\ pplan.chart_type = "table"
    /\ pout.chart_type = "bar"
    /\ pout.metrics = <<"booking_value">>
    /\ pout.dimensions = <<"project">>
    /\ pout.filters = {Filter("status", "booked")}
    /\ pout.limit = 10

\* Nothing but the validation of post has acted for the request: the tenant
\* was not taken over, the model was not called, no plan was built, no plan
\* was run.
RejectedUpFront(w) ==
    /\ req[w].outcome = NoOutcome
    /\ req[w].gemini_response = NoText
    /\ req[w].heuristic = NoPlan
    /\ req[w].extracted = NoPlan
    /\ ~req[w].executed.called
    /\ req[w].response.plan = NoPlan

\* C27: a request with a prompt and no tenant is answered 403 before any
\* other step (no model call, no plan, no run); an empty or whitespace-only
\* prompt is rejected before the tenant is resolved, so with and without a
\* tenant it is answered 400.
C27_RejectedBeforeAnyStep ==
    \A w \in Workers :
        AskServed(w) =>
            /\ (req[w].prompt # "" /\ req[w].tenant = None) =>
                    /\ req[w].response.status = 403
                    /\ RejectedUpFront(w)
            /\ req[w].prompt = "" =>
                    /\ req[w].response.status = 400
                    /\ req[w].org = None
                    /\ RejectedUpFront(w)

\* C27 witness: a greeting of a user without a tenant was answered 403 with
\* the model never called.
C27_Witness ==
    \E w \in Workers :
        /\ AskServed(w)
        /\ req[w].prompt = "Hello"
        /\ req[w].tenant = None
        /\ req[w].response.status = 403
        /\ req[w].outcome = NoOutcome

\* C29: ask_gemini returns None exactly when a failure cause is recorded at
\* its return: a call that returns text leaves the last error None.
C29_ErrorIffNone ==
    \A w \in Workers :
        Asked(w) =>
            (req[w].gemini_response = NoText <=> req[w].cause # None)

\* The request waits in model.generate_content for the external model.
InModelCall(w) == req[w].pc = "call"

\* C22: the call to the external model is bounded in time: while a request
\* waits for the model, the serving thread has a step of its own (the timeout,
\* handled as a translator failure) that ends the wait, so that the request
\* is answered even when the external model never answers.
C22_CallIsBounded ==
    \A w \in Workers : InModelCall(w) => ENABLED HandlerStep(w)

\* The command has run.
HasRun == Len(sync.options) > 0

\* The option of the last run.
LastTruncate == sync.options[Len(sync.options)]

\* data_type of the row with this key.
StoredDataType(k) == (CHOOSE d \in StoredDefs : FieldKey(d) = k)[3]

\* The keys of the scanned relation fields.
ForeignKeyKeys ==
    { ModelFields[i][1] \o "." \o ModelFields[i][2] :
        i \in { n \in 1..Len(ModelFields) : ModelFields[n][3] = "ForeignKey" } }

\* C23: after a run of the catalog-sync command every Field Catalog entry has
\* a data_type in {decimal, integer, string, date, boolean, reference}, and
\* the entry of a relation (foreign-key) field has data_type "reference".
C23_DataTypesOfTheSpec ==
    HasRun =>
        /\ \A k \in DOMAIN catalog :
                StoredDataType(k) \in
                    {"decimal", "integer", "string", "date", "boolean", "reference"}
        /\ \A k \in ForeignKeyKeys : StoredDataType(k) = "reference"

\* C30: the catalog-sync command is an upsert on the key: after a run every
\* key derived from a scanned field has its row with is_enabled = true,
\* whatever it was before; without --truncate every other row is as it was
\* and no row is gone, with --truncate only the derived rows exist; a second
\* run with the same option leaves the table as the first run left it.
C30_SeedIsUpsert ==
    HasRun =>
        /\ \A k \in AllCatalogKeys : k \in DOMAIN catalog /\ catalog[k]
        /\ IF LastTruncate
           THEN DOMAIN catalog = AllCatalogKeys
           ELSE /\ DOMAIN catalog = DOMAIN sync.before \cup AllCatalogKeys
                /\ \A k \in DOMAIN sync.before \ AllCatalogKeys :
                        catalog[k] = sync.before[k]
        /\ (Len(sync.options) >= 2
              /\ sync.options[Len(sync.options) - 1] = LastTruncate) =>
                catalog = sync.before

\* C30 witness: a run without --truncate has enabled the disabled row of
\* employee.role, created the missing row of booking.project and left the
\* disabled row of the underived key customer.legacy_code as it was, and the
\* second run has changed nothing.
C30_Witness ==
    /\ sync.options = <<FALSE, FALSE>>
    /\ catalog = sync.before
    /\ catalog["employee.role"]
    /\ catalog["booking.project"]
    /\ "customer.legacy_code" \in DOMAIN catalog
    /\ ~catalog["customer.legacy_code"]

=============================================================================
